---- MODULE Spec2Model ----
(***************************************************************************)
(* The DevKB VS Code extension (src/src/extension.ts) as a state machine.  *)
(*                                                                         *)
(* The extension registers five commands.  Each command is an async        *)
(* function; it runs synchronously up to an await, is suspended there, and *)
(* is resumed by the answer of the awaited party (the user at a prompt,    *)
(* the network, the editor).  One action of the model is one such          *)
(* synchronous run.  The handlers share no variable (the file has no       *)
(* module-level state), so the model follows one invocation at a time and  *)
(* lets the environment (settings, editor selection) change between any    *)
(* two of its steps.                                                       *)
(*                                                                         *)
(* Text is a sequence of characters; a literal piece of a template string  *)
(* is one element of the sequence.  A value that may be undefined is a     *)
(* record [def, val].                                                      *)
(***************************************************************************)
EXTENDS Naturals, Sequences, FiniteSets

\* ------------------------------------------------------------------ bounds

\* longest text typed at the search prompt
MaxLen == 2
\* longest text typed at the tags prompt
MaxTagLen == 2
\* most entries in the data array of a search response
MaxResults == 2

\* ------------------------------------------------------------ JS values

Undefined == [def |-> FALSE, val |-> <<>>]
Str(s) == [def |-> TRUE, val |-> s]

\* JS truthiness of a value of type string | undefined
Truthy(x) == x.def /\ x.val # <<>>

\* x === undefined in place of !x: the empty string passes
NotUndefinedOnly(x) == ~x.def

\* !x
Not(x) == ~Truthy(x)

\* a || b for strings
OrElse(a, b) == IF Truthy(a) THEN a ELSE b

Texts(alphabet, n) == UNION {[1..k -> alphabet] : k \in 0..n}
Answers(alphabet, n) == {Undefined} \cup {Str(t) : t \in Texts(alphabet, n)}

\* Array.prototype.join
RECURSIVE Join(_, _)
Join(ss, sep) ==
  IF ss = <<>> THEN <<>>
  ELSE IF Len(ss) = 1 THEN Head(ss)
  ELSE Head(ss) \o sep \o Join(Tail(ss), sep)

\* ------------------------------------------------------------- settings

DefaultApiUrl == <<"http://localhost:3001">>
DefaultDataDir == <<".devkb">>

\* values of the setting devkb.apiUrl: unset, empty, a custom URL
ApiUrlSettings == {Undefined, Str(<<>>), Str(<<"http://kb:8080">>)}
\* values of the setting devkb.dataDir: unset, empty, a custom directory
DataDirSettings == {Undefined, Str(<<>>), Str(<<"kb">>)}
\* the selection of the active editor: no editor, nothing selected, some text
Selections == {Undefined, Str(<<>>), Str(<<"s">>)}
\* vscode.workspace.workspaceFolders: undefined, none, one, two folders
WorkspaceFolders ==
  {Undefined, Str(<<>>), Str(<< <<"ws">> >>), Str(<< <<"lib">>, <<"ws">> >>)}

VARIABLES
  cfgApiUrl,      \* setting devkb.apiUrl
  cfgDataDir,     \* setting devkb.dataDir
  editorSel,      \* text selected in the active editor; Undefined: no editor
  cmd,            \* the command of the current (or last) invocation
  pc,             \* where the handler is suspended; "idle": not running
  question,       \* askQuestion: question
  query,          \* search: query
  type,           \* addEntry: type
  title,          \* addEntry: title
  content,        \* addEntry: content
  selectedText,   \* addEntry: selectedText
  result,         \* the value apiRequest resolved to
  items,          \* search: items
  selected,       \* search: selected (index into items, 0: undefined)
  folders,        \* indexProject: workspaceFolders
  inflight,       \* the HTTP request handed to fetch and not yet answered
  response,       \* what the network answered to the last request
  requests,       \* the requests issued by this invocation
  ui,             \* prompts, notifications and documents of this invocation
  doc,            \* content of the document opened by this invocation
  fsLog,          \* file-system calls of this invocation
  threw,          \* the handler ended with an exception nobody caught
  apiUrlAtInvoke, \* devkb.apiUrl when the command was invoked
  answer          \* the prompt answer that resumed the handler in its last step,
                  \* if a prompt answer did

locals == <<question, query, type, title, content, selectedText, result, items, selected,
            folders>>
env == <<cfgApiUrl, cfgDataDir, editorSel>>
trace == <<requests, ui, doc, fsLog, threw, apiUrlAtInvoke>>
vars == <<env, cmd, pc, locals, inflight, response, trace, answer>>

\* ------------------------------------------------------------ JSON values

\* the parsed body of a response: null, or an object read through the
\* envelope {success, data?, error?}; the client never reads error
Null == [isNull |-> TRUE, success |-> FALSE, hasData |-> FALSE, data |-> <<>>]
Envelope(s, d) == [isNull |-> FALSE, success |-> s, hasData |-> TRUE, data |-> d]
EnvelopeNoData(s) == [isNull |-> FALSE, success |-> s, hasData |-> FALSE, data |-> <<>>]

\* the characters typed at the search prompt
Chars == {"x", " "}
\* what the user answers at the other free-text prompts: the prompt is
\* dismissed, left empty, or some text is typed (the code never looks inside)
QuestionAnswers == {Undefined, Str(<<>>), Str(<<"h", "o", "w", "?">>)}
TitleAnswers == {Undefined, Str(<<>>), Str(<<"T", "i", "t", "l", "e">>)}
ContentAnswers == {Undefined, Str(<<>>), Str(<<"c">>)}
\* an unpaired surrogate, which encodeURIComponent rejects
LoneSurrogate == "\\uD800"

EntryTypes == <<"code", "documentation", "decision", "conversation", "architecture", "process">>

\* entries a server may return
Entry1 == [title |-> <<"A", "u", "t", "h">>, type |-> <<"code">>,
           content |-> <<"j", "w", "t">>, tags |-> << <<"auth">>, <<"jwt">> >>]
Entry2 == [title |-> <<"D", "B">>, type |-> <<"decision">>,
           content |-> <<"s", "q", "l">>, tags |-> <<>>]
Entries == {Entry1, Entry2}

Stats1 == [totalEntries |-> 2, totalTags |-> 2, searchHistoryCount |-> 1,
           byType |-> << <<"code", 1>>, <<"decision", 1>> >>]
Stats0 == [totalEntries |-> 0, totalTags |-> 0, searchHistoryCount |-> 0, byType |-> <<>>]

\* the data a conforming server puts in the envelope, per command
DataOf(c) ==
  CASE c = "ask" -> {[answer |-> <<"a">>]}
    [] c = "search" -> UNION {[1..k -> Entries] : k \in 0..MaxResults}
    [] c = "addEntry" -> {Entry1}
    [] c = "stats" -> {Stats0, Stats1}
    [] OTHER -> {}

\* the JSON bodies a server may answer with
BodiesOf(c) ==
  {Null} \cup {Envelope(s, d) : s \in BOOLEAN, d \in DataOf(c)}
         \cup {EnvelopeNoData(s) : s \in BOOLEAN}

HttpStatuses == {200, 500}

\* ------------------------------------------------------------- UI events

Ev(kind, what, text) == [kind |-> kind, what |-> what, text |-> text]

\* ---------------------------------------------------------- configuration

\* the setting is read when the command starts, not when the request is made
getApiUrlAtInvoke == IF Truthy(apiUrlAtInvoke) THEN apiUrlAtInvoke.val ELSE DefaultApiUrl

getApiUrl == IF Truthy(cfgApiUrl) THEN cfgApiUrl.val ELSE DefaultApiUrl

getDataDir == IF Truthy(cfgDataDir) THEN cfgDataDir.val ELSE DefaultDataDir

\* ------------------------------------------------------------ the handlers

NoLocals ==
  /\ question' = Undefined /\ query' = Undefined /\ type' = Undefined
  /\ title' = Undefined /\ content' = Undefined /\ selectedText' = Undefined
  /\ result' = <<>> /\ items' = <<>> /\ selected' = 0 /\ folders' = Undefined

\* the handler returns: its frame is gone
Return == pc' = "idle" /\ threw' = FALSE /\ NoLocals

\* the handler ends with an exception that nothing catches
Throw == pc' = "idle" /\ threw' = TRUE /\ NoLocals

\* a command starts: the trace of the previous invocation is dropped
Invoke(c) ==
  /\ pc = "idle"
  /\ cmd' = c
  /\ apiUrlAtInvoke' = cfgApiUrl
  /\ response' = <<>>
  /\ answer' = <<>>
  /\ UNCHANGED env

Init ==
  /\ cfgApiUrl \in ApiUrlSettings
  /\ cfgDataDir \in DataDirSettings
  /\ editorSel \in Selections
  /\ cmd = "none" /\ pc = "idle"
  /\ question = Undefined /\ query = Undefined /\ type = Undefined
  /\ title = Undefined /\ content = Undefined /\ selectedText = Undefined
  /\ result = <<>> /\ items = <<>> /\ selected = 0 /\ folders = Undefined
  /\ inflight = <<>> /\ response = <<>>
  /\ requests = <<>> /\ ui = <<>> /\ doc = Undefined /\ fsLog = <<>>
  /\ threw = FALSE /\ apiUrlAtInvoke = cfgApiUrl
  /\ answer = <<>>

\* the method is not handed to fetch, which then sends a GET
ApiRequestIgnoresMethod(sofar, method, endpoint, data) ==
  /\ inflight' = << [method |-> "GET",
                     url |-> getApiUrl \o endpoint,
                     endpoint |-> endpoint,
                     contentType |-> "application/json",
                     body |-> data] >>
  /\ requests' = Append(sofar, [method |-> "GET", route |-> Head(endpoint)])
  /\ pc' = "fetch"

\* apiRequest up to its first await: the URL is built and fetch is called;
\* sofar are the requests this invocation has issued before
ApiRequest(sofar, method, endpoint, data) ==
  /\ inflight' = << [method |-> method,
                     url |-> getApiUrl \o endpoint,
                     endpoint |-> endpoint,
                     contentType |-> "application/json",
                     body |-> data] >>
  /\ requests' = Append(sofar, [method |-> method, route |-> Head(endpoint)])
  /\ pc' = "fetch"

ApiError(reason) == Ev("error", "DevKB API error", <<"DevKB API error: ", reason>>)

\* fetch resolves with a response of any status; response.json() is awaited
FetchResolve(status) ==
  /\ pc = "fetch"
  /\ answer' = <<>>
  /\ response' = << [kind |-> "response", status |-> status, body |-> Null] >>
  /\ inflight' = <<>>
  /\ pc' = "json"
  /\ UNCHANGED <<env, cmd, locals, trace>>

\* fetch rejects: the catch block reports and apiRequest resolves to null
FetchReject ==
  /\ pc = "fetch"
  /\ answer' = <<>>
  /\ response' = << [kind |-> "rejected", status |-> 0, body |-> Null] >>
  /\ inflight' = <<>>
  /\ ui' = Append(ui, ApiError("TypeError: fetch failed"))
  /\ result' = << Null >>
  /\ pc' = "resume"
  /\ UNCHANGED <<env, cmd, question, query, type, title, content, selectedText,
                 items, selected, folders, requests, doc, fsLog, threw, apiUrlAtInvoke>>

\* response.json() resolves: apiRequest resolves to the parsed body
JsonResolve(body) ==
  /\ pc = "json"
  /\ answer' = <<>>
  /\ response' = << [kind |-> "json", status |-> response[1].status, body |-> body] >>
  /\ result' = << body >>
  /\ pc' = "resume"
  /\ UNCHANGED <<env, cmd, question, query, type, title, content, selectedText,
                 items, selected, folders, inflight, trace>>

\* response.json() is awaited outside the try block
JsonRejectUncaught ==
  /\ pc = "json"
  /\ answer' = <<>>
  /\ response' = << [kind |-> "badjson", status |-> response[1].status, body |-> Null] >>
  /\ Throw
  /\ UNCHANGED <<env, cmd, inflight, requests, ui, doc, fsLog, apiUrlAtInvoke>>

\* response.json() rejects (the body is no JSON): the same catch block
JsonReject ==
  /\ pc = "json"
  /\ answer' = <<>>
  /\ response' = << [kind |-> "badjson", status |-> response[1].status, body |-> Null] >>
  /\ ui' = Append(ui, ApiError("SyntaxError: Unexpected token"))
  /\ result' = << Null >>
  /\ pc' = "resume"
  /\ UNCHANGED <<env, cmd, question, query, type, title, content, selectedText,
                 items, selected, folders, inflight, requests, doc, fsLog, threw, apiUrlAtInvoke>>

\* if (result && result.success)
Succeeded(r) == ~r.isNull /\ r.success

\* --- devkb.ask

InvokeAsk ==
  /\ Invoke("ask")
  /\ ui' = << Ev("inputBox", "question", <<"Ask a question about your codebase">>) >>
  /\ pc' = "question"
  /\ requests' = <<>> /\ doc' = Undefined /\ fsLog' = <<>> /\ threw' = FALSE
  /\ UNCHANGED <<locals, inflight>>

AnswerQuestion(a) ==
  /\ pc = "question"
  /\ answer' = << a >>
  /\ IF Not(a)
       THEN Return /\ UNCHANGED <<inflight, requests>>
       ELSE /\ question' = a
            /\ ApiRequest(requests, "POST", <<"/api/ask">>, << [question |-> a.val] >>)
            /\ UNCHANGED <<query, type, title, content, selectedText, result,
                           items, selected, folders, threw>>
  /\ UNCHANGED <<env, cmd, response, ui, doc, fsLog, apiUrlAtInvoke>>

AskDocument(q, ans) == <<"# Question: ">> \o q \o <<"\n\n## Answer\n">> \o ans

AskResume ==
  /\ pc = "resume" /\ cmd = "ask"
  /\ answer' = <<>>
  /\ LET r == result[1] IN
     IF Succeeded(r)
       THEN IF r.hasData
              THEN /\ doc' = Str(AskDocument(question.val, r.data.answer))
                   /\ pc' = "openTextDocument"
                   /\ UNCHANGED <<locals, ui, threw>>
              ELSE Throw /\ UNCHANGED <<ui, doc>>
       ELSE /\ ui' = Append(ui, Ev("warning", "Could not get an answer",
                       <<"Could not get an answer. Make sure the API server is running.">>))
            /\ Return /\ UNCHANGED doc
  /\ UNCHANGED <<env, cmd, inflight, response, requests, fsLog, apiUrlAtInvoke>>

\* openTextDocument resolves; showTextDocument is called with the document
OpenTextDocumentResolve ==
  /\ pc = "openTextDocument"
  /\ answer' = <<>>
  /\ ui' = Append(ui, Ev("document", "markdown", doc.val))
  /\ pc' = "showTextDocument"
  /\ UNCHANGED <<env, cmd, locals, inflight, response, requests, doc, fsLog, threw,
                 apiUrlAtInvoke>>

\* showTextDocument resolves; the handler returns
ShowTextDocumentResolve ==
  /\ pc = "showTextDocument"
  /\ answer' = <<>>
  /\ Return
  /\ UNCHANGED <<env, cmd, inflight, response, requests, ui, doc, fsLog, apiUrlAtInvoke>>

\* --- devkb.search

QueryChars == Chars \cup {LoneSurrogate}

\* encodeURIComponent of one character: unreserved characters stay, the others
\* become the %XX of their UTF-8 bytes
EncodeChar(c) == IF c = " " THEN <<"%", "2", "0">> ELSE <<c>>

RECURSIVE encodeURIComponent(_)
encodeURIComponent(s) ==
  IF s = <<>> THEN <<>> ELSE EncodeChar(Head(s)) \o encodeURIComponent(Tail(s))

\* encodeURIComponent throws URIError on an unpaired surrogate
EncodeThrows(s) == \E i \in 1..Len(s) : s[i] = LoneSurrogate

InvokeSearch ==
  /\ Invoke("search")
  /\ ui' = << Ev("inputBox", "query", <<"Search the knowledge base">>) >>
  /\ pc' = "query"
  /\ requests' = <<>> /\ doc' = Undefined /\ fsLog' = <<>> /\ threw' = FALSE
  /\ UNCHANGED <<locals, inflight>>

AnswerQuery(a) ==
  /\ pc = "query"
  /\ answer' = << a >>
  /\ IF Not(a)
       THEN Return /\ UNCHANGED <<inflight, requests>>
       ELSE IF EncodeThrows(a.val)
         THEN Throw /\ UNCHANGED <<inflight, requests>>
         ELSE /\ query' = a
              /\ ApiRequest(requests, "GET", <<"/api/search?q=">> \o encodeURIComponent(a.val), <<>>)
              /\ UNCHANGED <<question, type, title, content, selectedText, result,
                             items, selected, folders, threw>>
  /\ UNCHANGED <<env, cmd, response, ui, doc, fsLog, apiUrlAtInvoke>>

\* the length of the detail line of a quick-pick item
DetailLen == 100

\* String.prototype.substring(0, n)
Substring(s, n) == SubSeq(s, 1, IF Len(s) < n THEN Len(s) ELSE n)

\* label and description are swapped
QuickPickItemSwapped(entry) ==
  [label |-> entry.type,
   description |-> entry.title,
   detail |-> Substring(entry.content, DetailLen) \o <<"...">>,
   entry |-> entry]

QuickPickItem(entry) ==
  [label |-> entry.title,
   description |-> entry.type,
   detail |-> Substring(entry.content, DetailLen) \o <<"...">>,
   entry |-> entry]

QuickPickItems(data) == [i \in 1..Len(data) |-> QuickPickItem(data[i])]

EntryDocument(e) ==
  <<"# ">> \o e.title \o <<"\n\n**Type:** ">> \o e.type \o <<"\n**Tags:** ">>
    \o Join(e.tags, <<", ">>) \o <<"\n\n---\n\n">> \o e.content

SearchResume ==
  /\ pc = "resume" /\ cmd = "search"
  /\ answer' = <<>>
  /\ LET r == result[1] IN
     IF Succeeded(r) /\ ~r.hasData
       THEN Throw /\ UNCHANGED ui
       ELSE IF Succeeded(r) /\ Len(r.data) > 0
         THEN /\ items' = QuickPickItems(r.data)
              /\ ui' = Append(ui, Ev("quickPick", "results", <<>>))
              /\ pc' = "pick"
              /\ UNCHANGED <<question, query, type, title, content, selectedText,
                             result, selected, folders, threw>>
         ELSE /\ ui' = Append(ui, Ev("info", "No results found", <<"No results found.">>))
              /\ Return
  /\ UNCHANGED <<env, cmd, inflight, response, requests, doc, fsLog, apiUrlAtInvoke>>

\* the quick pick returns item i, or undefined (0) when it is dismissed
AnswerPick(i) ==
  /\ pc = "pick"
  /\ answer' = <<>>
  /\ IF i > 0
       THEN /\ selected' = i
            /\ doc' = Str(EntryDocument(items[i].entry))
            /\ pc' = "openTextDocument"
            /\ UNCHANGED <<question, query, type, title, content, selectedText,
                           result, items, folders, threw>>
       ELSE Return /\ UNCHANGED doc
  /\ UNCHANGED <<env, cmd, inflight, response, requests, ui, fsLog, apiUrlAtInvoke>>

\* --- devkb.addEntry

\* the characters typed at the tags prompt
TagChars == {"a", "A", " ", ","}
Whitespace == {" "}

\* String.prototype.split with a one-character separator
RECURSIVE Split(_, _)
Split(s, sep) ==
  IF \A i \in 1..Len(s) : s[i] # sep
    THEN << s >>
    ELSE LET i == CHOOSE j \in 1..Len(s) :
                    s[j] = sep /\ \A k \in 1..(j - 1) : s[k] # sep
         IN << SubSeq(s, 1, i - 1) >> \o Split(SubSeq(s, i + 1, Len(s)), sep)

RECURSIVE TrimStart(_)
TrimStart(s) ==
  IF s # <<>> /\ Head(s) \in Whitespace THEN TrimStart(Tail(s)) ELSE s

RECURSIVE TrimEnd(_)
TrimEnd(s) ==
  IF s # <<>> /\ s[Len(s)] \in Whitespace THEN TrimEnd(SubSeq(s, 1, Len(s) - 1)) ELSE s

\* trimStart in place of trim
TrimStartOnly(s) == TrimStart(s)

\* String.prototype.trim
Trim(s) == TrimEnd(TrimStart(s))

\* tags ? tags.split(',').map(t => t.trim()) : []
ParseTags(tags) ==
  IF Truthy(tags)
    THEN LET parts == Split(tags.val, ",") IN [i \in 1..Len(parts) |-> Trim(parts[i])]
    ELSE <<>>

TypeAnswers == {Undefined} \cup {Str(<< EntryTypes[i] >>) : i \in 1..Len(EntryTypes)}

\* editor?.document.getText(selection)
GetSelectedText == editorSel

InvokeAddEntry ==
  /\ Invoke("addEntry")
  /\ selectedText' = GetSelectedText
  /\ ui' = << Ev("quickPick", "type", <<"Select entry type">>) >>
  /\ pc' = "type"
  /\ requests' = <<>> /\ doc' = Undefined /\ fsLog' = <<>> /\ threw' = FALSE
  /\ UNCHANGED <<question, query, type, title, content, result, items, selected,
                 folders, inflight>>

AnswerType(a) ==
  /\ pc = "type"
  /\ answer' = << a >>
  /\ IF Not(a)
       THEN Return /\ UNCHANGED ui
       ELSE /\ type' = a
            /\ ui' = Append(ui, Ev("inputBox", "title", <<"Enter entry title">>))
            /\ pc' = "title"
            /\ UNCHANGED <<question, query, title, content, selectedText, result,
                           items, selected, folders, threw>>
  /\ UNCHANGED <<env, cmd, inflight, response, requests, doc, fsLog, apiUrlAtInvoke>>

\* placeHolder: selectedText || 'Enter the knowledge content...'
ContentPlaceHolder == OrElse(selectedText, Str(<<"Enter the knowledge content...">>)).val

AnswerTitle(a) ==
  /\ pc = "title"
  /\ answer' = << a >>
  /\ IF Not(a)
       THEN Return /\ UNCHANGED ui
       ELSE /\ title' = a
            /\ ui' = Append(ui, Ev("inputBox", "content", ContentPlaceHolder))
            /\ pc' = "content"
            /\ UNCHANGED <<question, query, type, content, selectedText, result,
                           items, selected, folders, threw>>
  /\ UNCHANGED <<env, cmd, inflight, response, requests, doc, fsLog, apiUrlAtInvoke>>

\* the selection is read again when the content prompt returns
ContentOfCurrentSelection(typed, sel) == OrElse(OrElse(typed, editorSel), Str(<<>>))

\* content = content || '': the selection is forgotten
ContentOfTypedOnly(typed, sel) == OrElse(typed, Str(<<>>))

\* content = content || selectedText || ''
ContentOf(typed, sel) == OrElse(OrElse(typed, sel), Str(<<>>))

AnswerContent(a) ==
  /\ pc = "content"
  /\ answer' = << a >>
  /\ IF Not(a) /\ Not(selectedText)
       THEN /\ ui' = Append(ui, Ev("warning", "Content is required", <<"Content is required">>))
            /\ Return
       ELSE /\ content' = ContentOf(a, selectedText)
            /\ ui' = Append(ui, Ev("inputBox", "tags", <<"Enter tags (comma-separated)">>))
            /\ pc' = "tags"
            /\ UNCHANGED <<question, query, type, title, selectedText, result,
                           items, selected, folders, threw>>
  /\ UNCHANGED <<env, cmd, inflight, response, requests, doc, fsLog, apiUrlAtInvoke>>

EntryBody(tags) ==
  [type |-> type.val, title |-> title.val, content |-> content.val,
   tags |-> ParseTags(tags), source |-> <<"vscode">>]

\* if (!tags) return;
AnswerTagsRequired(a) ==
  /\ pc = "tags"
  /\ answer' = << a >>
  /\ IF Not(a)
       THEN Return /\ UNCHANGED <<inflight, requests>>
       ELSE /\ ApiRequest(requests, "POST", <<"/api/entries">>, << EntryBody(a) >>)
            /\ UNCHANGED <<locals, threw>>
  /\ UNCHANGED <<env, cmd, response, ui, doc, fsLog, apiUrlAtInvoke>>

AnswerTags(a) ==
  /\ pc = "tags"
  /\ answer' = << a >>
  /\ ApiRequest(requests, "POST", <<"/api/entries">>, << EntryBody(a) >>)
  /\ UNCHANGED <<env, cmd, locals, response, ui, doc, fsLog, threw, apiUrlAtInvoke>>

AddEntryResume ==
  /\ pc = "resume" /\ cmd = "addEntry"
  /\ answer' = <<>>
  /\ IF Succeeded(result[1])
       THEN ui' = Append(ui, Ev("info", "created successfully",
                     <<"Entry \"">> \o title.val \o <<"\" created successfully!">>))
       ELSE ui' = Append(ui, Ev("error", "Failed to create entry", <<"Failed to create entry">>))
  /\ Return
  /\ UNCHANGED <<env, cmd, inflight, response, requests, doc, fsLog, apiUrlAtInvoke>>

\* --- devkb.index

\* most files findFiles reports
MaxFiles == 2

Digits == <<"0", "1", "2", "3", "4", "5", "6", "7", "8", "9">>

\* a number in a template string
RECURSIVE ToString(_)
ToString(n) ==
  IF n < 10 THEN << Digits[n + 1] >>
  ELSE ToString(n \div 10) \o << Digits[(n % 10) + 1] >>

\* path.normalize on segments: "." is dropped, ".." removes the segment before it
RECURSIVE Normalize(_, _)
Normalize(done, rest) ==
  IF rest = <<>> THEN done
  ELSE IF Head(rest) \in {".", ""} THEN Normalize(done, Tail(rest))
  ELSE IF Head(rest) = ".." /\ done # <<>> /\ done[Len(done)] # ".."
    THEN Normalize(SubSeq(done, 1, Len(done) - 1), Tail(rest))
  ELSE Normalize(Append(done, Head(rest)), Tail(rest))

\* path.join(a, b)
PathJoin(a, b) == Normalize(<<>>, a \o b)

\* what the file system answers: the directory exists, it is created, or
\* mkdirSync throws
FsOutcomes == {"exists", "created", "mkdirThrows"}

InvokeIndex(workspaceFolders, fs) ==
  /\ Invoke("index")
  /\ requests' = <<>> /\ doc' = Undefined
  /\ IF ~workspaceFolders.def \/ Len(workspaceFolders.val) = 0
       THEN /\ ui' = << Ev("warning", "No workspace folder open", <<"No workspace folder open">>) >>
            /\ fsLog' = <<>>
            /\ Return
       ELSE LET dataDir == PathJoin(workspaceFolders.val[1], getDataDir) IN
            /\ ui' = <<>>
            /\ fsLog' = << [op |-> "existsSync", path |-> dataDir] >>
                          \o (IF fs = "exists" THEN <<>>
                              ELSE << [op |-> "mkdirSync", path |-> dataDir] >>)
            /\ IF fs = "mkdirThrows"
                 THEN Throw
                 ELSE /\ pc' = "findFiles" /\ threw' = FALSE
                      /\ folders' = workspaceFolders
                      /\ UNCHANGED <<question, query, type, title, content, selectedText,
                                     result, items, selected>>
  /\ UNCHANGED inflight

FindFilesResolve(n) ==
  /\ pc = "findFiles"
  /\ answer' = <<>>
  /\ ui' = ui \o << Ev("info", "Found files", <<"Found ">> \o ToString(n) \o <<" files to index">>),
                    Ev("info", "Use the DevKB CLI", <<"Use the DevKB CLI to index: devkb index">>) >>
  /\ Return
  /\ UNCHANGED <<env, cmd, inflight, response, requests, doc, fsLog, apiUrlAtInvoke>>

\* --- devkb.stats

InvokeStats ==
  /\ Invoke("stats")
  /\ ui' = <<>> /\ doc' = Undefined /\ fsLog' = <<>> /\ threw' = FALSE
  /\ ApiRequest(<<>>, "GET", <<"/api/stats">>, <<>>)
  /\ UNCHANGED locals

StatsMessage(stats) ==
  Join(<< <<"Total Entries: ">> \o ToString(stats.totalEntries),
          <<"Unique Tags: ">> \o ToString(stats.totalTags),
          <<"Searches: ">> \o ToString(stats.searchHistoryCount),
          <<>>,
          <<"By Type:">> >>
       \o [i \in 1..Len(stats.byType) |->
             <<"  ", stats.byType[i][1], ": ">> \o ToString(stats.byType[i][2])],
       <<"\n">>)

StatsResume ==
  /\ pc = "resume" /\ cmd = "stats"
  /\ answer' = <<>>
  /\ LET r == result[1] IN
     IF Succeeded(r)
       THEN IF r.hasData
              THEN /\ ui' = Append(ui, Ev("info", "statistics", StatsMessage(r.data)))
                   /\ Return
              ELSE Throw /\ UNCHANGED ui
       ELSE /\ ui' = Append(ui, Ev("warning", "Could not load statistics",
                       <<"Could not load statistics">>))
            /\ Return
  /\ UNCHANGED <<env, cmd, inflight, response, requests, doc, fsLog, apiUrlAtInvoke>>

\* ---------------------------------------------------------- the environment

\* the user edits a setting
ChangeApiUrl(v) ==
  /\ v # cfgApiUrl
  /\ cfgApiUrl' = v
  /\ UNCHANGED <<cfgDataDir, editorSel, cmd, pc, locals, inflight, response, trace, answer>>

ChangeDataDir(v) ==
  /\ v # cfgDataDir
  /\ cfgDataDir' = v
  /\ UNCHANGED <<cfgApiUrl, editorSel, cmd, pc, locals, inflight, response, trace, answer>>

\* the user changes the selection, opens or closes the editor
ChangeSelection(v) ==
  /\ v # editorSel
  /\ editorSel' = v
  /\ UNCHANGED <<cfgApiUrl, cfgDataDir, cmd, pc, locals, inflight, response, trace, answer>>

\* ------------------------------------------------------ the specification

Next ==
  \/ InvokeAsk
  \/ \E a \in QuestionAnswers : AnswerQuestion(a)
  \/ AskResume
  \/ InvokeSearch
  \/ \E a \in Answers(QueryChars, MaxLen) : AnswerQuery(a)
  \/ SearchResume
  \/ \E i \in 0..Len(items) : AnswerPick(i)
  \/ OpenTextDocumentResolve
  \/ ShowTextDocumentResolve
  \/ InvokeAddEntry
  \/ \E a \in TypeAnswers : AnswerType(a)
  \/ \E a \in TitleAnswers : AnswerTitle(a)
  \/ \E a \in ContentAnswers : AnswerContent(a)
  \/ \E a \in Answers(TagChars, MaxTagLen) : AnswerTags(a)
  \/ AddEntryResume
  \/ \E w \in WorkspaceFolders, fs \in FsOutcomes : InvokeIndex(w, fs)
  \/ \E n \in 0..MaxFiles : FindFilesResolve(n)
  \/ InvokeStats
  \/ StatsResume
  \/ \E st \in HttpStatuses : FetchResolve(st)
  \/ FetchReject
  \/ \E b \in BodiesOf(cmd) : JsonResolve(b)
  \/ JsonReject
  \/ \E v \in ApiUrlSettings : ChangeApiUrl(v)
  \/ \E v \in DataDirSettings : ChangeDataDir(v)
  \/ \E v \in Selections : ChangeSelection(v)

Spec == Init /\ [][Next]_vars

\* ------------------------------------------------------------- the claims

InFlight == inflight # <<>>
Sent == inflight[1]
Finished(c) == cmd = c /\ pc = "idle"
Whats(log) == [i \in 1..Len(log) |-> log[i].what]
Count(log, what) == Cardinality({i \in 1..Len(log) : log[i].what = what})
IsPrompt(e) == e.kind \in {"inputBox", "quickPick"}
IsNotification(e) == e.kind \in {"error", "warning", "info"}
Notifications(log) == SelectSeq(log, IsNotification)

RouteOf(c) ==
  CASE c = "ask" -> [method |-> "POST", route |-> "/api/ask"]
    [] c = "search" -> [method |-> "GET", route |-> "/api/search?q="]
    [] c = "addEntry" -> [method |-> "POST", route |-> "/api/entries"]
    [] c = "stats" -> [method |-> "GET", route |-> "/api/stats"]
    [] OTHER -> [method |-> "none", route |-> "none"]

\* C1: every request is one of POST /api/ask, GET /api/search?q=...,
\* POST /api/entries, GET /api/stats, is issued by the command it belongs to,
\* at most once per invocation, and devkb.index issues none
C1_RequestsOfCommands ==
  /\ Len(requests) <= 1
  /\ \A i \in 1..Len(requests) :
       /\ cmd \in {"ask", "search", "addEntry", "stats"}
       /\ requests[i] = RouteOf(cmd)
  /\ cmd = "index" => requests = <<>> /\ ~InFlight
  /\ InFlight =>
       /\ requests = << [method |-> Sent.method, route |-> Head(Sent.endpoint)] >>

C1_Witness == Finished("addEntry") /\ Len(requests) = 1 /\ response # <<>>

\* C2: the body of every POST /api/entries has exactly the fields type, title,
\* content, tags, source; type is one of the six types, title and content are
\* non-empty, tags is a list of strings (empty when the tags prompt was
\* dismissed or left empty) and source is 'vscode'
C2_EntryBody ==
  (InFlight /\ cmd = "addEntry") =>
    /\ Len(Sent.body) = 1
    /\ LET b == Sent.body[1] IN
       /\ DOMAIN b = {"type", "title", "content", "tags", "source"}
       /\ \E i \in 1..Len(EntryTypes) : b.type = << EntryTypes[i] >>
       /\ b.title # <<>>
       /\ b.content # <<>>
       /\ \A i \in 1..Len(b.tags) : b.tags[i] \in Texts(TagChars, MaxTagLen)
       /\ (answer # <<>> /\ answer[1] \in {Undefined, Str(<<>>)}) => b.tags = <<>>
       /\ b.source = <<"vscode">>

C2_Witness ==
  /\ InFlight /\ cmd = "addEntry"
  /\ Sent.body[1].content = <<"s">>
  /\ Len(Sent.body[1].tags) = 2

\* C3: no POST /api/ask carries an empty question and no GET /api/search an
\* empty q; when the input box of ask or search is dismissed or left empty the
\* command ends with no request, no document and no notification
C3_NoEmptyQuestion ==
  /\ (InFlight /\ cmd = "ask") => Sent.body[1].question # <<>>
  /\ (InFlight /\ cmd = "search") =>
       /\ Head(Sent.endpoint) = "/api/search?q="
       /\ Len(Sent.endpoint) > 1
  /\ (cmd \in {"ask", "search"} /\ answer # <<>> /\ answer[1] \in {Undefined, Str(<<>>)}) =>
       /\ pc = "idle" /\ ~threw
       /\ requests = <<>> /\ ~InFlight
       /\ doc = Undefined
       /\ Len(ui) = 1 /\ IsPrompt(ui[1])

C3_Witness ==
  /\ Finished("search") /\ answer = << Str(<<>>) >>
  /\ requests = <<>>

\* a body that conforms to the envelope {success, data?, error?}
Conforming == response # <<>> /\ response[1].kind = "json" /\ ~response[1].body.isNull

ResultShown ==
  \E i \in 1..Len(ui) :
    ui[i].kind \in {"document"} \/ ui[i].what \in {"results", "created successfully", "statistics"}

FailureShown ==
  \E i \in 1..Len(ui) :
    ui[i].what \in {"Could not get an answer", "No results found",
                    "Failed to create entry", "Could not load statistics"}

\* C4: for every response that conforms to the envelope, with success true or
\* false and data present or absent, the command completes without an
\* unhandled exception, presents its result only when success is true and
\* presents its failure notification otherwise
C4_EnvelopeHandled ==
  (pc = "idle" /\ Conforming) =>
    /\ ~threw
    /\ ResultShown => response[1].body.success
    /\ ~response[1].body.success => FailureShown

IsLower(c) == c \notin {"A"}
Trimmed(t) == t = <<>> \/ (Head(t) \notin Whitespace /\ t[Len(t)] \notin Whitespace)

\* C5 as claimed: every tag of a submitted entry is trimmed and lowercase, and
\* no tag occurs twice in the list
C5_TagsNormalized ==
  (InFlight /\ cmd = "addEntry") =>
    LET tags == Sent.body[1].tags IN
    /\ \A i \in 1..Len(tags) : Trimmed(tags[i]) /\ \A k \in 1..Len(tags[i]) : IsLower(tags[i][k])
    /\ \A i, j \in 1..Len(tags) : tags[i] = tags[j] => i = j

\* C5 as amended: every tag of a submitted entry is trimmed and holds no
\* comma, and the list has one tag per comma-separated piece of the text typed
C5_TagsTrimmed ==
  (InFlight /\ cmd = "addEntry") =>
    LET tags == Sent.body[1].tags
        typed == answer[1]
        commas == IF typed.def THEN Cardinality({k \in 1..Len(typed.val) : typed.val[k] = ","})
                  ELSE 0
    IN
    /\ \A i \in 1..Len(tags) : Trimmed(tags[i]) /\ \A k \in 1..Len(tags[i]) : tags[i][k] # ","
    /\ Len(tags) = IF typed \in {Undefined, Str(<<>>)} THEN 0 ELSE commas + 1

C5_Witness ==
  /\ InFlight /\ cmd = "addEntry"
  /\ \E k \in 1..Len(answer[1].val) : answer[1].val[k] \in Whitespace
  /\ \E i \in 1..Len(Sent.body[1].tags) : Sent.body[1].tags[i] = <<"A">>

\* C6: the quick pick of search has one item per entry of data, in the order
\* of data, item i carrying data[i] with its title as label and its type as
\* description; the document opened renders the title, type, tags and content
\* of the entry of the selected item
C6_QuickPickAndDocument ==
  /\ (cmd = "search" /\ pc = "pick") =>
       LET data == result[1].data IN
       /\ Len(data) > 0
       /\ Len(items) = Len(data)
       /\ \A i \in 1..Len(data) :
            /\ items[i].label = data[i].title
            /\ items[i].description = data[i].type
            /\ items[i].entry = data[i]
       /\ ui[Len(ui)] = Ev("quickPick", "results", <<>>)
  /\ (cmd = "search" /\ pc \in {"openTextDocument", "showTextDocument"}) =>
       LET data == result[1].data
           e == data[selected]
       IN
       /\ selected \in 1..Len(data)
       /\ doc = Str(<<"# ">> \o e.title \o <<"\n\n**Type:** ">> \o e.type
                    \o <<"\n**Tags:** ">> \o Join(e.tags, <<", ">>)
                    \o <<"\n\n---\n\n">> \o e.content)
       /\ items[selected].label = e.title
  /\ (cmd = "search" /\ pc = "showTextDocument") =>
       ui[Len(ui)] = Ev("document", "markdown", doc.val)

C6_Witness ==
  /\ cmd = "search" /\ pc = "showTextDocument"
  /\ selected = 2
  /\ result[1].data = << Entry2, Entry1 >>
  /\ ui[Len(ui)].text = EntryDocument(Entry1)

Unset(x) == x \in {Undefined, Str(<<>>)}

\* C7: the URL of every request is the setting devkb.apiUrl as it is when the
\* request is made, 'http://localhost:3001' when it is unset or empty,
\* followed by the endpoint; the directory indexProject checks and creates is
\* the first workspace folder joined with the setting devkb.dataDir, '.devkb'
\* when it is unset or empty
C7_SettingsAndDefaults ==
  [][ /\ (~InFlight /\ inflight' # <<>>) =>
           inflight'[1].url =
             (IF Unset(cfgApiUrl) THEN <<"http://localhost:3001">> ELSE cfgApiUrl.val)
               \o inflight'[1].endpoint
      /\ (pc = "idle" /\ cmd' = "index" /\ fsLog' # <<>> /\ UNCHANGED env) =>
           /\ fsLog'[1].op = "existsSync"
           /\ \A i \in 1..Len(fsLog') :
                \E w \in WorkspaceFolders :
                  /\ w.def /\ w.val # <<>>
                  /\ pc' = "findFiles" => w = folders'
                  /\ fsLog'[i].path =
                       w.val[1] \o (IF Unset(cfgDataDir) THEN <<".devkb">> ELSE cfgDataDir.val)
    ]_vars

C7_Witness ==
  /\ InFlight /\ cmd = "ask"
  /\ apiUrlAtInvoke = Str(<<"http://kb:8080">>)
  /\ Sent.url = <<"http://localhost:3001", "/api/ask">>

\* C8: the content addEntry submits is the text typed at the content prompt
\* when it is non-empty and otherwise the selection captured when the command
\* was invoked, whatever the selection has become; when both are empty or
\* absent it warns 'Content is required', shows no tags prompt and sends
\* nothing
C8_ContentFromSelection ==
  [][ /\ (pc = "idle" /\ pc' = "type") => selectedText' = editorSel
      /\ (cmd = "addEntry" /\ pc # "idle" /\ pc' # "idle") => selectedText' = selectedText
      /\ (pc = "content" /\ pc' # "content") =>
           LET typed == answer'[1]
               empty == Unset(typed) /\ Unset(selectedText)
           IN
           /\ empty <=> pc' = "idle"
           /\ empty =>
                /\ ui' = Append(ui, Ev("warning", "Content is required", <<"Content is required">>))
                /\ requests' = <<>> /\ inflight' = <<>>
           /\ ~empty =>
                /\ pc' = "tags"
                /\ content' = IF Unset(typed) THEN selectedText ELSE typed
           /\ ~Unset(typed) => content' = typed
      /\ (pc = "tags" /\ pc' = "fetch") =>
           inflight'[1].body[1].content = content.val
    ]_vars

C8_Witness ==
  /\ InFlight /\ cmd = "addEntry"
  /\ Sent.body[1].content = <<"s">>
  /\ editorSel = Undefined

TransportFailed == response # <<>> /\ response[1].kind \in {"rejected", "badjson"}

OwnFailure(c) ==
  CASE c = "ask" -> "Could not get an answer"
    [] c = "search" -> "No results found"
    [] c = "addEntry" -> "Failed to create entry"
    [] c = "stats" -> "Could not load statistics"
    [] OTHER -> "none"

\* C9: apiRequest never throws: it resolves to the parsed body whatever the
\* status, and a rejected fetch or an unparsable body gives exactly one
\* 'DevKB API error' message and null; the command then shows its own failure
\* notification after it, and search says 'No results found.' alike for a
\* transport failure, success=false and an empty data array
C9_ApiRequestNeverThrows ==
  /\ pc = "resume" =>
       /\ response # <<>> /\ ~threw
       /\ response[1].kind = "json" =>
            result = << response[1].body >> /\ Count(ui, "DevKB API error") = 0
       /\ TransportFailed =>
            result = << Null >> /\ Count(ui, "DevKB API error") = 1
  /\ (pc = "idle" /\ TransportFailed) =>
       /\ ~threw
       /\ Whats(Notifications(ui)) = << "DevKB API error", OwnFailure(cmd) >>
  /\ (Finished("search") /\ response # <<>>
        /\ \/ TransportFailed
           \/ ~Succeeded(response[1].body)
           \/ (response[1].body.hasData /\ response[1].body.data = <<>>)) =>
       /\ ui[Len(ui)] = Ev("info", "No results found", <<"No results found.">>)
       /\ Count(ui, "results") = 0

C9_Witness ==
  /\ Finished("addEntry")
  /\ response # <<>> /\ response[1].kind = "badjson" /\ response[1].status = 500
  /\ Len(Notifications(ui)) = 2

AddEntryPrompts == << "type", "title", "content", "tags" >>

\* C10: addEntry prompts in the order type, title, content, tags and sends
\* its request only after the tags prompt returned; a dismissed type or title
\* prompt (or an empty title) ends it with no later prompt, no request and no
\* notification; a dismissed tags prompt still sends the request, with
\* tags = []; every request sent is followed by exactly one of 'created
\* successfully' and 'Failed to create entry'
C10_PromptOrder ==
  cmd = "addEntry" =>
    LET prompts == SelectSeq(ui, IsPrompt) IN
    /\ Len(prompts) <= 4
    /\ Whats(prompts) = SubSeq(AddEntryPrompts, 1, Len(prompts))
    /\ \A i \in 1..Len(prompts) : ui[i] = prompts[i]
    /\ requests # <<>> => Len(prompts) = 4
    /\ (pc = "fetch") => (answer # <<>> /\ Len(ui) = 4 /\ requests # <<>>)
    /\ (pc = "fetch" /\ Unset(answer[1])) => Sent.body[1].tags = <<>>
    /\ (answer # <<>> /\ Unset(answer[1]) /\ Len(prompts) <= 2) =>
         /\ pc = "idle" /\ requests = <<>> /\ ~InFlight /\ Len(ui) = Len(prompts)
    /\ (pc = "idle" /\ Len(prompts) = 4) => requests # <<>>
    /\ Count(ui, "created successfully") + Count(ui, "Failed to create entry")
         = IF pc = "idle" /\ requests # <<>> THEN 1 ELSE 0

C10_Witness ==
  /\ cmd = "addEntry" /\ pc = "fetch"
  /\ answer = << Undefined >>
  /\ Sent.body[1].tags = <<>>

====
